---- MODULE Spec2Model ----
(***************************************************************************)
(* Model of the snake game in src/src/main.rs: the GameState owned by      *)
(* main, one iteration of main's while loop per step (run_loop while the   *)
(* game is running, the GAME OVER screen afterwards), Snake::mov,          *)
(* Food::mov and the keyboard handling of run_loop.                        *)
(*                                                                         *)
(* Time: state.time is only ever read through state.time.elapsed(), so the *)
(* model keeps elapsed = now - state.time (nanoseconds) instead of the two *)
(* instants.  Only the comparison with state.period matters, so a frame    *)
(* observes one of three readings: below, equal to, or above the period.   *)
(*                                                                         *)
(* Board: GAME_SIZE is a compile-time constant (20).  The board size is    *)
(* carried in gameSize, fixed by Init, so that the exhaustive              *)
(* specification runs on a BoardSize x BoardSize board.                    *)
(***************************************************************************)
EXTENDS Integers, Sequences, FiniteSets

\* ---- program constants ------------------------------------------------
GAME_SIZE == 20
INITIAL_PERIOD == 300
NANOS_PER_MILLI == 1000000

\* ---- bounds of the exhaustive specification ---------------------------
BoardSize == 3
MaxLen == 4
KeysBoardSize == 2

VARIABLES
    body,        \* Snake.body, head first
    direction,   \* Snake.direction
    food,        \* Food.position
    elapsed,     \* state.time.elapsed() as last observed (0 right after a tick)
    period,      \* GameState.period, in nanoseconds
    finished,    \* GameState.finished
    gameSize,    \* GAME_SIZE of this run
    tick,        \* what Snake::mov returned in the latest frame, "NoTick" if not called
    keys,        \* the direction keys held during the latest call of run_loop
    reading,     \* the time since state.time at the latest call of run_loop
    relocations  \* number of calls of Food::mov so far

vars == <<body, direction, food, elapsed, period, finished, gameSize, tick, keys, reading, relocations>>

Direction == {"Up", "Down", "Left", "Right"}

\* The sets of direction keys a frame finds held: none or a single key.
\* Combinations of keys are the subject of SpecKeys below.
HeldKeys == {k \in SUBSET Direction : Cardinality(k) <= 1}

\* GamePoint::random: any cell of the board.
GamePoint_random(n) == [x : 0 .. n - 1, y : 0 .. n - 1]

\* GamePoint::matches
matches(a, b) == a.x = b.x /\ a.y = b.y

\* Snake::get_head
get_head(b) == Head(b)

\* HitsWall whose Up check tests the bottom row.
HitsWall_upAtBottom(d, h, n) ==
    LET limits == n - 1 IN
    \/ d = "Up" /\ h.y = limits
    \/ d = "Down" /\ h.y = limits
    \/ d = "Left" /\ h.x = 0
    \/ d = "Right" /\ h.x = limits

\* HitsWall without the check of the top edge.
HitsWall_noUp(d, h, n) ==
    LET limits == n - 1 IN
    \/ d = "Down" /\ h.y = limits
    \/ d = "Left" /\ h.x = 0
    \/ d = "Right" /\ h.x = limits

\* Snake::mov, the four early returns before any arithmetic.
HitsWall(d, h, n) ==
    LET limits == n - 1 IN
    \/ d = "Up" /\ h.y = 0
    \/ d = "Down" /\ h.y = limits
    \/ d = "Left" /\ h.x = 0
    \/ d = "Right" /\ h.x = limits

\* Translate whose Left arm moves two cells.
Translate_leftTwo(d, h) ==
    CASE d = "Up" -> [h EXCEPT !.y = h.y - 1]
      [] d = "Down" -> [h EXCEPT !.y = h.y + 1]
      [] d = "Left" -> [h EXCEPT !.x = h.x - 2]
      [] d = "Right" -> [h EXCEPT !.x = h.x + 1]

\* Translate whose Up arm moves down.
Translate_upIsDown(d, h) ==
    CASE d = "Up" -> [h EXCEPT !.y = h.y + 1]
      [] d = "Down" -> [h EXCEPT !.y = h.y + 1]
      [] d = "Left" -> [h EXCEPT !.x = h.x - 1]
      [] d = "Right" -> [h EXCEPT !.x = h.x + 1]

\* Snake::mov, the match that moves new_head by one cell.
Translate(d, h) ==
    CASE d = "Up" -> [h EXCEPT !.y = h.y - 1]
      [] d = "Down" -> [h EXCEPT !.y = h.y + 1]
      [] d = "Left" -> [h EXCEPT !.x = h.x - 1]
      [] d = "Right" -> [h EXCEPT !.x = h.x + 1]

\* Collisions that leaves out the tail, as if it had already moved away.
Collisions_skipTail(b, new_head) == {i \in 1 .. Len(b) - 1 : matches(b[i], new_head)}

\* Collisions that compares the new head with the current head only.
Collisions_headOnly(b, new_head) == {i \in {1} : matches(b[i], new_head)}

\* Collisions that never finds a match.
Collisions_none(b, new_head) == {}

\* Snake::mov, the collision filter over the whole body: the indices that match.
Collisions(b, new_head) == {i \in 1 .. Len(b) : matches(b[i], new_head)}

\* Snake::is_on_food, on the body after push_front.
is_on_food(b, f) == matches(get_head(b), f)

\* pop_back that removes the front element.
pop_back_front(b) == Tail(b)

\* pop_back that removes nothing.
pop_back_keep(b) == b

\* VecDeque::pop_back
pop_back(b) == SubSeq(b, 1, Len(b) - 1)

\* Snake_mov that pushes the new head before the collision check.
Snake_mov_pushFirst(b, d, f, n) ==
    IF HitsWall(d, get_head(b), n)
    THEN [ret |-> "None", body |-> b]
    ELSE LET new_head == Translate(d, get_head(b))
             pushed == <<new_head>> \o b IN
         IF Collisions(b, new_head) # {}
         THEN [ret |-> "None", body |-> pushed]
         ELSE IF is_on_food(pushed, f)
              THEN [ret |-> "SomeTrue", body |-> pushed]
              ELSE [ret |-> "SomeFalse", body |-> pop_back(pushed)]

\* Snake::mov: the return value and the body it leaves.  The call of
\* food.mov on Some(true) draws a random cell and is part of the frame.
Snake_mov(b, d, f, n) ==
    IF HitsWall(d, get_head(b), n)
    THEN [ret |-> "None", body |-> b]
    ELSE LET new_head == Translate(d, get_head(b)) IN
         IF Collisions(b, new_head) # {}
         THEN [ret |-> "None", body |-> b]
         ELSE LET pushed == <<new_head>> \o b IN
              IF is_on_food(pushed, f)
              THEN [ret |-> "SomeTrue", body |-> pushed]
              ELSE [ret |-> "SomeFalse", body |-> pop_back(pushed)]

\* Food::mov: the cells the food can be moved to (the snake is ignored).
Food_mov(b, n) == GamePoint_random(n)

\* mul_f32 with the factor 1.05.
mul_f32_grow(p) == p + p \div 20

\* mul_f32 whose result is dropped.
mul_f32_skip(p) == p

\* Duration::mul_f32(PERIOD_CHANGE): the period times 0.95, in whole
\* nanoseconds (the f32 rounding of the last bits is not modelled).
mul_f32(p) == (p \div 100) * 95 + ((p % 100) * 95) \div 100

\* KeyInput that tests the Up key before the Down key.
KeyInput_upFirst(k, d) ==
    IF "Up" \in k /\ d # "Down" THEN "Up"
    ELSE IF "Down" \in k /\ d # "Up" THEN "Down"
    ELSE IF "Left" \in k /\ d # "Right" THEN "Left"
    ELSE IF "Right" \in k /\ d # "Left" THEN "Right"
    ELSE d

\* KeyInput without the guards against the opposite heading.
KeyInput_unguarded(k, d) ==
    IF "Down" \in k THEN "Down"
    ELSE IF "Up" \in k THEN "Up"
    ELSE IF "Left" \in k THEN "Left"
    ELSE IF "Right" \in k THEN "Right"
    ELSE d

\* run_loop, the if / else-if chain over is_key_down.
KeyInput(k, d) ==
    IF "Down" \in k /\ d # "Up" THEN "Down"
    ELSE IF "Up" \in k /\ d # "Down" THEN "Up"
    ELSE IF "Left" \in k /\ d # "Right" THEN "Left"
    ELSE IF "Right" \in k /\ d # "Left" THEN "Right"
    ELSE d

\* The readings of state.time.elapsed() a frame can make: below, equal to
\* and above the period.
ElapsedReadings(p) == {p \div 2, p, p + 1}

\* The same without the boundary case: below and above the period.
CoarseReadings(p) == {p \div 2, p + 1}

\* Time moves forward between frames.
LaterReading(e) == e > elapsed \/ e = period + 1

\* TickDue that also fires when the elapsed time equals the period.
TickDue_orEqual(e, p) == e >= p

\* run_loop, the condition state.time.elapsed() > state.period.
TickDue(e, p) == e > p

\* main, the GameState literal; Snake::new and Food::new.
InitOn(n) ==
    /\ gameSize = n
    /\ \E p \in GamePoint_random(n) : body = <<p>>
    /\ direction = "Up"
    /\ food \in GamePoint_random(n)
    /\ elapsed = 0
    /\ period = INITIAL_PERIOD * NANOS_PER_MILLI
    /\ finished = FALSE
    /\ tick = "NoTick"
    /\ keys = {}
    /\ reading = 0
    /\ relocations = 0

Init == InitOn(BoardSize)

\* run_loop: one frame while the game is running.
run_loop(k, e) ==
    /\ LaterReading(e)
    /\ keys' = k
    /\ reading' = e
    /\ gameSize' = gameSize
    /\ IF TickDue(e, period)
       THEN LET r == Snake_mov(body, direction, food, gameSize) IN
            /\ elapsed' = 0
            /\ tick' = r.ret
            /\ body' = r.body
            /\ CASE r.ret = "None" ->
                      /\ finished' = TRUE
                      /\ UNCHANGED <<direction, food, period, relocations>>
                 [] r.ret = "SomeTrue" ->
                      /\ Len(body) < MaxLen
                      /\ food' \in Food_mov(r.body, gameSize)
                      /\ relocations' = relocations + 1
                      /\ period' = mul_f32(period)
                      /\ direction' = KeyInput(k, direction)
                      /\ finished' = finished
                 [] r.ret = "SomeFalse" ->
                      /\ direction' = KeyInput(k, direction)
                      /\ UNCHANGED <<food, period, relocations, finished>>
       ELSE /\ elapsed' = e
            /\ tick' = "NoTick"
            /\ direction' = KeyInput(k, direction)
            /\ UNCHANGED <<body, food, period, relocations, finished>>

\* main: one iteration of the while loop once the game is finished.  The
\* keyboard and state.time are not read any more.
game_over(k, e) ==
    /\ LaterReading(e)
    /\ tick' = "NoTick"
    /\ UNCHANGED <<body, direction, food, elapsed, period, finished, gameSize, keys, reading, relocations>>

\* main that calls run_loop whether or not the game is finished.
main_noFinishedCheck(k, e) == run_loop(k, e)

\* main: one iteration of the while loop.
main(k, e) ==
    IF ~finished THEN run_loop(k, e) ELSE game_over(k, e)

Running == \E k \in HeldKeys, e \in CoarseReadings(period) : ~finished /\ main(k, e)

GameOver == \E k \in HeldKeys, e \in CoarseReadings(period) : finished /\ main(k, e)

Next == Running \/ GameOver

Spec == Init /\ [][Next]_vars

\* ---- the game with no key ever held ------------------------------------

RunningNoInput == \E e \in ElapsedReadings(period) : ~finished /\ main({}, e)

GameOverNoInput == \E e \in ElapsedReadings(period) : finished /\ main({}, e)

NextNoInput == RunningNoInput \/ GameOverNoInput

\* The snake of the 20 x 20 scenario: one segment at (10,10), heading Up.
ScenarioStart == [x |-> GAME_SIZE \div 2, y |-> GAME_SIZE \div 2]

InitScenario == InitOn(GAME_SIZE) /\ body = <<ScenarioStart>>

SpecScenario == InitScenario /\ [][NextNoInput]_vars

\* A frame of the running game that finds the tick due.
TickFrameNoInput == ~finished /\ main({}, period + 1)

\* Frames keep occurring and time keeps advancing, so ticks keep firing.
SpecNoInputFair == Init /\ [][NextNoInput]_vars /\ WF_vars(TickFrameNoInput)

\* ---- the game with any combination of keys held and any reading of the
\* ---- elapsed time, the period itself included, on a small board ---------

InitKeys == InitOn(KeysBoardSize)

RunningAnyKeys == \E k \in SUBSET Direction, e \in ElapsedReadings(period) : ~finished /\ main(k, e)

GameOverAnyKeys == \E k \in SUBSET Direction, e \in ElapsedReadings(period) : finished /\ main(k, e)

\* The snake of this specification grows to the side of the board at most.
NextAnyKeys == (RunningAnyKeys \/ GameOverAnyKeys) /\ Len(body') <= gameSize

SpecKeys == InitKeys /\ [][NextAnyKeys]_vars

\* ---- vocabulary of the properties ---------------------------------------

Opposite(d) ==
    CASE d = "Up" -> "Down"
      [] d = "Down" -> "Up"
      [] d = "Left" -> "Right"
      [] d = "Right" -> "Left"

InBoard(p) == p.x >= 0 /\ p.x < gameSize /\ p.y >= 0 /\ p.y < gameSize

Range(b) == {b[i] : i \in 1 .. Len(b)}

DX(d) == IF d = "Left" THEN -1 ELSE IF d = "Right" THEN 1 ELSE 0
DY(d) == IF d = "Up" THEN -1 ELSE IF d = "Down" THEN 1 ELSE 0

\* The head moved one cell in the heading, in unbounded integers.
Candidate == [x |-> Head(body).x + DX(direction), y |-> Head(body).y + DY(direction)]

Abs(i) == IF i < 0 THEN -i ELSE i
Distance(p, q) == Abs(p.x - q.x) + Abs(p.y - q.y)

\* This step is a frame of the running game in which Snake::mov was called.
TickStep == ~finished /\ tick' # "NoTick"

\* This step is a frame whose tick moved the snake.
SuccessfulTick == TickStep /\ tick' # "None"

\* ---- C1 ---------------------------------------------------------------
AllInBoard == (\A i \in 1 .. Len(body) : InBoard(body[i])) /\ InBoard(food)

TickKeepsInBoard ==
    TickStep =>
        IF ~InBoard(Candidate)
        THEN tick' = "None" /\ body' = body
        ELSE tick' # "None" =>
                 /\ Head(body') = Candidate
                 /\ Distance(Head(body'), Head(body)) = 1
                 /\ InBoard(Head(body'))

\* C1: every segment and the food are always inside the board; a tick with
\* the head on the edge it is heading towards returns None and leaves the
\* body alone, and any other tick that moves puts the new head one cell
\* away, inside the board.
C1_CoordinatesInBoard == []AllInBoard /\ [][TickKeepsInBoard]_vars

\* A tick hit the top wall: head in row 0, heading Up, game finished.
C1_Witness ==
    /\ finished /\ tick = "None"
    /\ direction = "Up" /\ Head(body).y = 0
    /\ Len(body) >= 2

\* ---- C2 ---------------------------------------------------------------
\* C2: a tick whose candidate head is inside the board returns None if and
\* only if the candidate equals a segment of the body before the move,
\* head and tail included.
C2_SelfCollisionIff ==
    [][(TickStep /\ InBoard(Candidate)) =>
           (tick' = "None" <=> Candidate \in Range(body))]_vars

\* A tick ran into the tail a normal move would have vacated.
C2_Witness ==
    /\ finished /\ tick = "None"
    /\ InBoard(Candidate)
    /\ Len(body) >= 4
    /\ Candidate = body[Len(body)]

\* ---- C3 ---------------------------------------------------------------
\* C3: for a snake of length at least 2, on every tick the candidate head
\* differs from the segment right behind the head.
C3_NeverIntoNeck ==
    [][(TickStep /\ Len(body) >= 2) => Candidate # body[2]]_vars

\* ---- C4 ---------------------------------------------------------------
\* C4: a tick that hits neither a wall nor the snake leaves length L + 1
\* (tail kept) exactly when the new head is on the food's position before
\* the tick, and length L (tail removed) otherwise.
C4_LengthAfterTick ==
    [][SuccessfulTick =>
           /\ Len(body') \in {Len(body), Len(body) + 1}
           /\ Len(body') = Len(body) + 1 <=> Head(body') = food
           /\ Len(body') = Len(body) + 1 => body'[Len(body')] = body[Len(body)]
           /\ tick' = "SomeTrue" <=> Len(body') = Len(body) + 1]_vars

\* The snake has grown: a tick returned Some(true) and the body is longer.
C4_Witness == ~finished /\ tick = "SomeTrue" /\ Len(body) = 3

\* ---- C5 ---------------------------------------------------------------
\* The period times 0.95 in whole nanoseconds: p less a twentieth, rounded up.
TimesShrinkFactor(p) == p - (p + 19) \div 20

\* C5: a tick that eats relocates the food exactly once and multiplies the
\* period by 0.95 exactly once; a successful tick that does not eat
\* changes neither the food nor the period.
C5_EatingEffects ==
    [][SuccessfulTick =>
           IF tick' = "SomeTrue"
           THEN /\ relocations' = relocations + 1
                /\ period' = TimesShrinkFactor(period)
                /\ period' < period
           ELSE /\ relocations' = relocations
                /\ food' = food
                /\ period' = period]_vars

\* The snake has just eaten for the second time.
C5_Witness ==
    /\ tick = "SomeTrue" /\ relocations = 2
    /\ period = TimesShrinkFactor(TimesShrinkFactor(INITIAL_PERIOD * NANOS_PER_MILLI))

\* ---- C6 ---------------------------------------------------------------
\* C6: the heading after a frame is never the opposite of the heading
\* before it, whatever combination of direction keys is held.
C6_NoReversalInOneStep ==
    /\ [][direction' # Opposite(direction)]_vars
    /\ [](\A k \in SUBSET Direction : KeyInput(k, direction) # Opposite(direction))

\* Down was held in a frame that handled input, and the heading is still Up.
C6_Witness ==
    /\ ~finished /\ keys = {"Down"} /\ direction = "Up"
    /\ tick = "SomeFalse"

\* ---- C7 ---------------------------------------------------------------
\* C7: once finished is set it stays set, and body, heading, food and
\* period never change again.
C7_GameOverIsTerminal ==
    [][finished => (finished' /\ UNCHANGED <<body, direction, food, period>>)]_vars

\* A GAME OVER frame has run after a collision in whose frame a key was
\* held that would have turned the snake.
C7_Witness ==
    /\ finished /\ tick = "NoTick"
    /\ keys # {} /\ ~(Opposite(direction) \in keys) /\ ~(direction \in keys)
    /\ Len(body) >= 2

\* ---- C8 ---------------------------------------------------------------
\* C8: no two segments of the body are on the same cell.
C8_NoSelfOverlap ==
    \A i, j \in 1 .. Len(body) : i # j => body[i] # body[j]

\* The snake has grown to four segments and has just moved.
C8_Witness == Len(body) = 4 /\ tick = "SomeFalse"

\* ---- C9 ---------------------------------------------------------------
\* C9: after a tick that eats, the food is on another cell than before, the
\* length is one more and the period is the prior period times 0.95.
C9_FoodMovesAway ==
    [][(SuccessfulTick /\ Candidate = food) =>
           /\ food' # food
           /\ Len(body') = Len(body) + 1
           /\ period' = TimesShrinkFactor(period)]_vars

\* ---- C10 --------------------------------------------------------------
\* C10: after a successful tick the head and the food are on different cells.
C10_HeadNotOnFood ==
    tick \in {"SomeTrue", "SomeFalse"} => Head(body) # food

\* ---- C11 --------------------------------------------------------------
\* The cells the snake of the scenario crosses: its column, above the start.
ScenarioPath == {p \in GamePoint_random(GAME_SIZE) : p.x = ScenarioStart.x /\ p.y < ScenarioStart.y}

\* With no input every tick moves the head one row up until row 0, and the
\* tick from row 0 is rejected and ends the game.
ScenarioTicks ==
    TickStep =>
        IF Head(body).y >= 1
        THEN /\ tick' # "None" /\ ~finished'
             /\ Head(body') = [x |-> ScenarioStart.x, y |-> Head(body).y - 1]
        ELSE tick' = "None" /\ finished' /\ body' = body

\* C11 as stated: in the scenario the length is still 1 when the head has
\* reached row 1 (nine ticks) and the score of the finished game is 1.
C11_ScoreAlwaysOne ==
    /\ Head(body).y <= 1 => Len(body) = 1
    /\ finished => Len(body) = 1

\* C11 amended: the head goes up one row per tick, ten ticks succeed and the
\* eleventh ends the game; the length is 1 plus the number of foods eaten,
\* and stays 1 as long as the food is not on the snake's path.
C11_ScenarioAmended ==
    /\ [](direction = "Up" /\ Head(body).x = ScenarioStart.x /\ Len(body) = 1 + relocations)
    /\ [](finished => Head(body).y = 0)
    /\ [][ScenarioTicks]_vars
    /\ [][(Len(body) = 1 /\ food \notin ScenarioPath) => (Len(body') = 1 /\ food' = food)]_vars

\* The eleventh tick was rejected at (10,0) with the food off the path: score 1.
C11_Witness ==
    /\ finished /\ tick = "None" /\ gameSize = GAME_SIZE
    /\ Head(body) = [x |-> ScenarioStart.x, y |-> 0]
    /\ food \notin ScenarioPath
    /\ Len(body) = 1

\* ---- C12 --------------------------------------------------------------
\* C12: a tick that ends in a self-collision (candidate head in the board
\* and on a body segment) starts from a snake of length at least 4.
C12_SelfCollisionNeedsFour ==
    [][(TickStep /\ InBoard(Candidate) /\ tick' = "None") => Len(body) >= 4]_vars

\* ---- C13 --------------------------------------------------------------
Precedence == <<"Down", "Up", "Left", "Right">>

\* The places in the precedence order whose key is held and whose direction
\* is not the opposite of heading d.
Allowed(k, d) == {i \in 1 .. Len(Precedence) : Precedence[i] \in k /\ Precedence[i] # Opposite(d)}

FirstAllowed(k, d) ==
    IF Allowed(k, d) = {} THEN d
    ELSE Precedence[CHOOSE i \in Allowed(k, d) : \A j \in Allowed(k, d) : i <= j]

\* C13: the heading after a running frame's input step is the first of
\* Down, Up, Left, Right that is held and not opposite to the heading
\* before it, and the heading before it if there is none.
C13_InputPrecedence ==
    /\ [][(~finished /\ tick' # "None") => direction' = FirstAllowed(keys', direction)]_vars
    /\ [](\A k \in SUBSET Direction : KeyInput(k, direction) = FirstAllowed(k, direction))

\* All four keys were held while heading Up: Down was refused, Up selected.
C13_Witness ==
    /\ ~finished /\ keys = Direction /\ direction = "Up"
    /\ tick = "SomeFalse" /\ Len(body) = 2

\* ---- C14 --------------------------------------------------------------
\* C14: a tick that signals a collision leaves body, heading, food and
\* period as they were, whatever keys are held in that frame, and sets
\* finished; the body whose length GAME OVER shows is the body before the
\* colliding tick.
C14_CollisionChangesNothing ==
    [][(TickStep /\ tick' = "None") =>
           (finished' /\ UNCHANGED <<body, direction, food, period, relocations>>)]_vars

\* A colliding frame in which a key was held that would have turned the snake.
C14_Witness ==
    /\ finished /\ tick = "None"
    /\ keys # {} /\ KeyInput(keys, direction) # direction
    /\ Len(body) >= 2

\* ---- C15 --------------------------------------------------------------
\* The five-segment snake of the example, (5,5) down to (5,9), and the same
\* snake one cell up.
ExampleBody == [i \in 1 .. 5 |-> [x |-> 5, y |-> 4 + i]]
ExampleMoved == [i \in 1 .. 5 |-> [x |-> 5, y |-> 3 + i]]

\* Heading Up with Down pressed, then ticked with the food not on (5,4).
ExampleHolds ==
    \A f \in GamePoint_random(GAME_SIZE) \ {ExampleMoved[1]} :
        Snake_mov(ExampleBody, KeyInput({"Down"}, "Up"), f, GAME_SIZE)
            = [ret |-> "SomeFalse", body |-> ExampleMoved]

\* C15: after a successful tick that does not eat, the body is the
\* candidate head followed by the old body without its last segment; after
\* one that eats, the candidate head followed by the whole old body.
C15_BodyAfterTick ==
    /\ [][SuccessfulTick =>
              IF tick' = "SomeTrue"
              THEN body' = <<Candidate>> \o body
              ELSE body' = <<Candidate>> \o SubSeq(body, 1, Len(body) - 1)]_vars
    /\ []ExampleHolds

\* A straight snake heading Up has moved up with Down held and refused.
C15_Witness ==
    /\ tick = "SomeFalse" /\ Len(body) = 3
    /\ keys = {"Down"} /\ direction = "Up"
    /\ \A i \in 1 .. 2 : body[i + 1] = [x |-> body[i].x, y |-> body[i].y + 1]

\* ---- C16 --------------------------------------------------------------
\* C16 as stated: a running frame ticks exactly when the elapsed time is
\* greater than or equal to the period.
C16_TickWhenElapsedAtLeastPeriod ==
    [][~finished => (reading' >= period <=> tick' # "NoTick")]_vars

\* C16 amended: a running frame performs one tick and resets the time
\* reference exactly when the elapsed time is strictly greater than the
\* period; otherwise (equality included) there is no tick and snake, food
\* and period are unchanged.
C16_TickWhenElapsedAbovePeriod ==
    [][~finished =>
           IF reading' > period
           THEN /\ tick' # "NoTick" /\ elapsed' = 0
                /\ tick' # "None" => Head(body') = Candidate
           ELSE /\ tick' = "NoTick" /\ elapsed' = reading'
                /\ UNCHANGED <<body, food, period>>]_vars

\* A frame found the elapsed time equal to the period and did not tick.
C16_Witness ==
    /\ ~finished /\ reading = period /\ tick = "NoTick"
    /\ Len(body) >= 2

\* ---- C17 --------------------------------------------------------------
\* C17: a tick never returns Some(true) when the food is on a segment of
\* the body before the move; moving the head onto such a cell is a
\* self-collision.
C17_NoEatingUnderSnake ==
    [][(TickStep /\ food \in Range(body)) =>
           /\ tick' # "SomeTrue"
           /\ Len(body') = Len(body)
           /\ food' = food
           /\ Candidate = food => tick' = "None"]_vars

\* The head ran into the tail cell on which the food lies: game over, not eaten.
C17_Witness ==
    /\ finished /\ tick = "None"
    /\ Len(body) = 4 /\ food = body[4] /\ Candidate = food

\* ---- C18 --------------------------------------------------------------
RECURSIVE ShrunkTimes(_, _)
\* p multiplied by the shrink factor n times.
ShrunkTimes(p, n) == IF n = 0 THEN p ELSE TimesShrinkFactor(ShrunkTimes(p, n - 1))

\* C18: the period is the initial 300 ms multiplied by the shrink factor
\* (length - 1) times; it never increases and changes only in a tick that
\* grows the snake.
C18_PeriodFollowsLength ==
    /\ [](period = ShrunkTimes(INITIAL_PERIOD * NANOS_PER_MILLI, Len(body) - 1))
    /\ [][/\ period' <= period
           /\ period' # period => (tick' = "SomeTrue" /\ Len(body') = Len(body) + 1)]_vars

\* The snake has eaten three times and the period has shrunk three times.
C18_Witness ==
    /\ Len(body) = 4 /\ relocations = 3
    /\ period < INITIAL_PERIOD * NANOS_PER_MILLI
    /\ tick = "NoTick" /\ ~finished

\* ---- C19 --------------------------------------------------------------
\* C19: the body is never empty and consecutive segments are orthogonal
\* neighbours.
C19_ConnectedPath ==
    /\ Len(body) >= 1
    /\ \A i \in 1 .. Len(body) - 1 : Distance(body[i], body[i + 1]) = 1

\* A snake of four segments with a bend in it.
C19_Witness ==
    /\ Len(body) = 4 /\ ~finished
    /\ body[1].x # body[4].x /\ body[1].y # body[4].y

\* ---- C20 --------------------------------------------------------------
\* With no key held a tick from row y >= 1 moves the head to row y - 1 and
\* the tick from row 0 is the colliding one.
UpwardTicks ==
    TickStep =>
        IF Head(body).y >= 1
        THEN tick' # "None" /\ ~finished' /\ Head(body').y = Head(body).y - 1
        ELSE tick' = "None" /\ finished'

\* C20: if no key is ever held the heading stays Up, a head in row y makes
\* y successful ticks and the next one hits the top wall, and the game
\* eventually reaches GameOver, whatever the food positions.
C20_NoInputEndsAtTopWall ==
    /\ [](direction = "Up" /\ Head(body).y < gameSize)
    /\ [](finished => Head(body).y = 0)
    /\ [][UpwardTicks]_vars
    /\ <>finished

\* Game over at the top wall after eating twice on the way up.
C20_Witness ==
    /\ finished /\ tick = "None" /\ keys = {}
    /\ direction = "Up" /\ Head(body).y = 0
    /\ Len(body) = 3

====
